---- MODULE Spec2Model ----
(***************************************************************************)
(* TEA / XTEA block cipher of src/xtea.hpp: the round engine               *)
(* (EncipherBlock, DecipherBlock, both #ifdef variants) and the buffer     *)
(* loop (Encrypt, Decrypt).                                                *)
(*                                                                         *)
(* A uint32_t is kept at its full width as a pair <<hi, lo>> of 16-bit     *)
(* halves (value hi * 2^16 + lo), because the model checker's integers end *)
(* at 2^31 - 1.  All arithmetic on words is modulo 2^32.                   *)
(***************************************************************************)
EXTENDS Integers, Sequences, FiniteSets, TLC

\* ---------------------------------------------------------------- bounds
MaxRounds == 2
MaxBlocks == 2
MaxCalls  == 2

\* ------------------------------------------------------ program constants
BLOCK_SIZE == 8
DELTA_HI   == 40503
DELTA_LO   == 31161
INT_MAX    == 2147483647

Half  == 2^16
Zero  == <<0, 0>>
DELTA == <<DELTA_HI, DELTA_LO>>
Byte  == 2^8

\* ------------------------------------------------- uint32_t arithmetic
RECURSIVE XorBits(_, _, _)
XorBits(a, b, n) ==
    IF n = 0 THEN 0
    ELSE ((a + b) % 2) + 2 * XorBits(a \div 2, b \div 2, n - 1)

\* a ^ b
XorW(a, b) == <<XorBits(a[1], b[1], 16), XorBits(a[2], b[2], 16)>>

\* a + b (unsigned, wraps)
AddW(a, b) ==
    LET s == a[2] + b[2]
    IN  <<(a[1] + b[1] + (s \div Half)) % Half, s % Half>>

\* a - b (unsigned, wraps)
SubW(a, b) ==
    LET d      == a[2] - b[2]
        borrow == IF d < 0 THEN 1 ELSE 0
    IN  <<(a[1] - b[1] - borrow + 2 * Half) % Half, (d + Half) % Half>>

\* a << 4
Shl4(a) == <<(a[1] * 16 + (a[2] \div 4096)) % Half, (a[2] * 16) % Half>>

\* a >> 5
Shr5(a) == <<a[1] \div 32, (a[2] \div 32) + (a[1] % 32) * 2048>>

\* n * a for a small unsigned n (wraps)
MulW(n, a) ==
    LET p == n * a[2]
    IN  <<(n * a[1] + (p \div Half)) % Half, p % Half>>

\* sum & 3
KeyIdxLow(s) == s[2] % 4

\* mutant: the mask of the key index is one bit too wide
KeyIdxHigh_WideMask(s) == (s[2] \div 2048) % 8

\* (sum >> 11) & 3
KeyIdxHigh(s) == (s[2] \div 2048) % 4

\* key[j]
ReadKey(k, j) == IF j \in DOMAIN k THEN k[j] ELSE Zero

\* ------------------------------------- the (uint32_t*) cast of a byte buffer
\* the word a uint32_t* at byte offset off reads, on a host of byte order e
LoadWord(m, off, e) ==
    IF e = "little"
    THEN <<m[off + 2] + Byte * m[off + 3], m[off] + Byte * m[off + 1]>>
    ELSE <<Byte * m[off] + m[off + 1], Byte * m[off + 2] + m[off + 3]>>

\* the bytes a store through a uint32_t* at byte offset off leaves
StoreWord(m, off, w, e) ==
    [o \in DOMAIN m |->
        IF o < off \/ o > off + 3 THEN m[o]
        ELSE LET j == o - off
             IN  IF e = "little"
                 THEN CASE j = 0 -> w[2] % Byte
                        [] j = 1 -> w[2] \div Byte
                        [] j = 2 -> w[1] % Byte
                        [] j = 3 -> w[1] \div Byte
                 ELSE CASE j = 0 -> w[1] \div Byte
                        [] j = 1 -> w[1] % Byte
                        [] j = 2 -> w[2] \div Byte
                        [] j = 3 -> w[2] % Byte]

\* ------------------------------------------------------------ round engine
\* uint32_t v[2] seen through the pointer data + b
V(m, b, e) == [j \in 0..1 |-> LoadWord(m, b + 4 * j, e)]

\* one assignment "v[idx] op= ..." : the word written, the words of v read and
\* the key indices read
Assign(m, b, e, w) == StoreWord(m, b + 4 * w.idx, w.val, e)

\* (x << 4) ^ (x >> 5) + x : in C, + binds tighter than ^
XteaMix(x) == XorW(Shl4(x), AddW(Shr5(x), x))

\* ((x << 4) + ka) ^ (x + sum) ^ ((x >> 5) + kb)
TeaMix(x, ka, kb, s) ==
    XorW(XorW(AddW(Shl4(x), ka), AddW(x, s)), AddW(Shr5(x), kb))

\* XTEA, line 69: v[0] += ((v[1] << 4) ^ (v[1] >> 5) + v[1]) ^ (sum + key[sum & 3])
XteaEnc69(v, k, s) ==
    [idx |-> 0,
     val |-> AddW(v[0], XorW(XteaMix(v[1]), AddW(s, ReadKey(k, KeyIdxLow(s))))),
     rds |-> {0, 1},
     kr  |-> {KeyIdxLow(s)}]

\* XTEA, line 71: v[0] += ((v[0] << 4) ^ (v[0] >> 5) + v[0]) ^ (sum + key[(sum >> 11) & 3])
XteaEnc71(v, k, s) ==
    [idx |-> 0,
     val |-> AddW(v[0], XorW(XteaMix(v[0]), AddW(s, ReadKey(k, KeyIdxHigh(s))))),
     rds |-> {0},
     kr  |-> {KeyIdxHigh(s)}]

\* XTEA, line 84: v[1] -= ((v[0] << 4) ^ (v[0] >> 5) + v[0]) ^ (sum + key[(sum >> 11) & 3])
XteaDec84(v, k, s) ==
    [idx |-> 1,
     val |-> SubW(v[1], XorW(XteaMix(v[0]), AddW(s, ReadKey(k, KeyIdxHigh(s))))),
     rds |-> {0, 1},
     kr  |-> {KeyIdxHigh(s)}]

\* XTEA, line 86: v[0] -= ((v[1] << 4) ^ (v[1] >> 5) + v[1]) ^ (sum + key[sum & 3])
XteaDec86(v, k, s) ==
    [idx |-> 0,
     val |-> SubW(v[0], XorW(XteaMix(v[1]), AddW(s, ReadKey(k, KeyIdxLow(s))))),
     rds |-> {0, 1},
     kr  |-> {KeyIdxLow(s)}]

\* TEA, line 40: v[0] += ((v[1] << 4) + key[0]) ^ (v[1] + sum) ^ ((v[1] >> 5) + key[1])
TeaEnc40(v, k, s) ==
    [idx |-> 0,
     val |-> AddW(v[0], TeaMix(v[1], ReadKey(k, 0), ReadKey(k, 1), s)),
     rds |-> {0, 1},
     kr  |-> {0, 1}]

\* TEA, line 41: v[1] += ((v[0] << 4) + key[2]) ^ (v[0] + sum) ^ ((v[0] >> 5) + key[3])
TeaEnc41(v, k, s) ==
    [idx |-> 1,
     val |-> AddW(v[1], TeaMix(v[0], ReadKey(k, 2), ReadKey(k, 3), s)),
     rds |-> {0, 1},
     kr  |-> {2, 3}]

\* TEA, line 54: v[1] -= ((v[0] << 4) + key[2]) ^ (v[0] + sum) ^ ((v[0] >> 5) + key[3])
TeaDec54(v, k, s) ==
    [idx |-> 1,
     val |-> SubW(v[1], TeaMix(v[0], ReadKey(k, 2), ReadKey(k, 3), s)),
     rds |-> {0, 1},
     kr  |-> {2, 3}]

\* TEA, line 55: v[0] -= ((v[1] << 4) + key[0]) ^ (v[1] + sum) ^ ((v[1] >> 5) + key[1])
TeaDec55(v, k, s) ==
    [idx |-> 0,
     val |-> SubW(v[0], TeaMix(v[1], ReadKey(k, 0), ReadKey(k, 1), s)),
     rds |-> {0, 1},
     kr  |-> {0, 1}]

\* the result of one loop iteration: the memory, the sum, and the two
\* assignments in program order
Iter(m, s, w1, w2) == [m |-> m, sum |-> s, ws |-> <<w1, w2>>]

\* XTEA EncipherBlock, body of the for loop (lines 69-71)
XteaEncipherBody(m, b, e, k, s) ==
    LET w1 == XteaEnc69(V(m, b, e), k, s)
        m1 == Assign(m, b, e, w1)
        s1 == AddW(s, DELTA)
        w2 == XteaEnc71(V(m1, b, e), k, s1)
    IN  Iter(Assign(m1, b, e, w2), s1, w1, w2)

\* XTEA DecipherBlock, body of the for loop (lines 84-86)
XteaDecipherBody(m, b, e, k, s) ==
    LET w1 == XteaDec84(V(m, b, e), k, s)
        m1 == Assign(m, b, e, w1)
        s1 == SubW(s, DELTA)
        w2 == XteaDec86(V(m1, b, e), k, s1)
    IN  Iter(Assign(m1, b, e, w2), s1, w1, w2)

\* mutant: block[1] is updated from the pre-round block[0]
TeaEncipherBody_Stale(m, b, e, k, s) ==
    LET s1 == AddW(s, DELTA)
        w1 == TeaEnc40(V(m, b, e), k, s1)
        m1 == Assign(m, b, e, w1)
        w2 == TeaEnc41(V(m, b, e), k, s1)
    IN  Iter(Assign(m1, b, e, w2), s1, w1, w2)

\* TEA EncipherBlock, body of the for loop (lines 39-41)
TeaEncipherBody(m, b, e, k, s) ==
    LET s1 == AddW(s, DELTA)
        w1 == TeaEnc40(V(m, b, e), k, s1)
        m1 == Assign(m, b, e, w1)
        w2 == TeaEnc41(V(m1, b, e), k, s1)
    IN  Iter(Assign(m1, b, e, w2), s1, w1, w2)

\* TEA DecipherBlock, body of the for loop (lines 54-56)
TeaDecipherBody(m, b, e, k, s) ==
    LET w1 == TeaDec54(V(m, b, e), k, s)
        m1 == Assign(m, b, e, w1)
        w2 == TeaDec55(V(m1, b, e), k, s)
    IN  Iter(Assign(m1, b, e, w2), SubW(s, DELTA), w1, w2)

\* uint32_t sum = 0  (lines 37, 67)
EncipherSumInit(n) == Zero

\* mutant: the sum starts at DELTA whatever the round count
DecipherSumInit_NoRounds(n) == DELTA

\* uint32_t sum = n_rounds * DELTA  (lines 52, 82)
DecipherSumInit(n) == MulW(n, DELTA)

\* ------------------------------------------------------------ buffer loop
\* size / BLOCK_SIZE and size % BLOCK_SIZE on the unsigned size
SizeDiv(sz) == sz[1] * (Half \div BLOCK_SIZE) + (sz[2] \div BLOCK_SIZE)
SizeMod(sz) == sz[2] % BLOCK_SIZE

\* mutant: the partial block is not counted
NBlocks_Floor(sz) == SizeDiv(sz)

\* int n_blocks = size / BLOCK_SIZE; if(size % BLOCK_SIZE != 0) n_blocks++;
NBlocks(sz) == IF SizeMod(sz) # 0 THEN SizeDiv(sz) + 1 ELSE SizeDiv(sz)

\* an integer too wide for the checker, as <<q, r>> = q * 2^16 + r, 0 <= r < 2^16
WideMul(a, n) ==
    LET p == a * (n % Half)
    IN  <<a * (n \div Half) + (p \div Half), p % Half>>
WideFitsInt(w) == w[1] >= -(Half \div 2) /\ w[1] < Half \div 2
WideWrap(w)    == <<((w[1] + Half \div 2) % Half) - Half \div 2, w[2]>>
ToInt(w)       == w[1] * Half + w[2]

\* mutant: the windows advance by half a block and overlap
OffsetOf_HalfStride(n) == {WideMul(BLOCK_SIZE \div 2, n)}

\* BLOCK_SIZE * i in int arithmetic.  When the product leaves the int range
\* the multiplication is undefined: the build either wraps it or, having
\* widened the index for the pointer addition, uses the unwrapped product.
OffsetOf(n) ==
    LET w == WideMul(BLOCK_SIZE, n)
    IN  IF WideFitsInt(w) THEN {w} ELSE {WideWrap(w), w}

\* ------------------------------------------------------------------ state
VARIABLES
    variant,    \* "XTEA" (default build) or "TEA" (USE_TEA_INSTEAD_OF_XTEA)
    endian,     \* byte order of the host, seen by the (uint32_t*) casts
    key,        \* the 16 key bytes
    n_rounds,   \* the round count of the calls
    size,       \* the uint size argument, a word <<hi, lo>>
    cap,        \* bytes of storage the caller really owns behind data
    data,       \* the memory behind the data pointer, byte offset -> byte
    data2,      \* a second run on a buffer that differs from data in block dblk
    dblk,       \* the block in which data2 differs from data
    orig,       \* data before the first call
    key0,       \* key before the first call
    pc,         \* "idle", "loop" (Encrypt/Decrypt for), "block" (round engine for), "fault"
    op,         \* the operation in progress
    n_blocks,   \* Encrypt/Decrypt local
    i,          \* Encrypt/Decrypt loop index
    base,       \* byte offset of v from data, as <<q, r>>
    sum,        \* round engine local
    rnd,        \* round engine loop index
    hist,       \* the operations that returned, in order
    starts,     \* offsets <<q, r>> of the round engine invocations of the current call
    wlog,       \* indices of v assigned by the current round engine invocation
    rd,         \* byte offsets read by the current call
    wr,         \* byte offsets written by the current call
    kidx        \* key indices read by the current call

vars == <<variant, endian, key, n_rounds, size, cap, data, data2, dblk, orig,
          key0, pc, op, n_blocks, i, base, sum, rnd, hist, starts, wlog, rd,
          wr, kidx>>

MemLen == BLOCK_SIZE * MaxBlocks
Offs   == 0 .. MemLen - 1

\* input buffers: one whose blocks are all alike, one whose blocks all differ
PatA == [o \in Offs |-> ((o % BLOCK_SIZE) * 37 + 11) % Byte]
PatB == [o \in Offs |-> (o * 29 + 200) % Byte]
\* the other content of block d
AltBlock(m, d) ==
    [o \in Offs |-> IF o \div BLOCK_SIZE = d THEN (o * 91 + 7) % Byte ELSE m[o]]

\* input keys
KeyZero == [o \in 0..15 |-> 0]
KeyPat  == [o \in 0..15 |-> (o * 73 + 201) % Byte]

\* input sizes: aligned ones and, in every block, a length that ends in the
\* first word and one that ends in the second
Sizes == {s \in 0 .. MemLen : s % BLOCK_SIZE \in {0, 3, 5}}

RoundUp(s) == ((s + BLOCK_SIZE - 1) \div BLOCK_SIZE) * BLOCK_SIZE

\* const uint32_t key[4] seen through (uint32_t*)key
KeyWords == [j \in 0..3 |-> LoadWord(key, 4 * j, endian)]

Init ==
    /\ variant \in {"XTEA", "TEA"}
    /\ endian \in {"little", "big"}
    /\ key \in {KeyZero, KeyPat}
    /\ key0 = key
    /\ n_rounds \in 0 .. MaxRounds
    /\ \E s \in Sizes :
          /\ size = <<0, s>>
          /\ cap \in {s, RoundUp(s)}
    /\ data \in {PatA, PatB}
    /\ dblk \in {0, MaxBlocks - 1}
    /\ data2 = AltBlock(data, dblk)
    /\ orig = data
    /\ pc = "idle"
    /\ op = "none"
    /\ n_blocks = 0
    /\ i = 0
    /\ base = Zero
    /\ sum = Zero
    /\ rnd = 0
    /\ hist = <<>>
    /\ starts = <<>>
    /\ wlog = <<>>
    /\ rd = {}
    /\ wr = {}
    /\ kidx = {}

Inputs == <<variant, endian, key, key0, n_rounds, size, cap, dblk, orig>>

\* ---------------------------------------------------------------- actions
\* the caller invokes Encrypt / Decrypt (lines 100-101, 115-116)
CallBuffer(o) ==
    /\ pc = "idle"
    /\ Len(hist) < MaxCalls
    /\ op' = o
    /\ n_blocks' = NBlocks(size)
    /\ i' = 0
    /\ pc' = "loop"
    /\ starts' = <<>>
    /\ wlog' = <<>>
    /\ rd' = {}
    /\ wr' = {}
    /\ kidx' = {}
    /\ UNCHANGED <<Inputs, data, data2, base, sum, rnd, hist>>

Encrypt == CallBuffer("Encrypt")
Decrypt == CallBuffer("Decrypt")

\* the sum a round engine call starts from
SumInit(o) ==
    IF o \in {"Encrypt", "EncipherBlock"}
    THEN EncipherSumInit(n_rounds)
    ELSE DecipherSumInit(n_rounds)

\* the caller invokes the round engine on a uint32_t[2] of its own: the
\* storage behind data is then exactly one block
CallBlock(o) ==
    /\ pc = "idle"
    /\ Len(hist) < MaxCalls
    /\ size = <<0, BLOCK_SIZE>>
    /\ cap = BLOCK_SIZE
    /\ op' = o
    /\ base' = Zero
    /\ sum' = SumInit(o)
    /\ rnd' = 0
    /\ pc' = "block"
    /\ starts' = <<Zero>>
    /\ wlog' = <<>>
    /\ rd' = {}
    /\ wr' = {}
    /\ kidx' = {}
    /\ UNCHANGED <<Inputs, data, data2, n_blocks, i, hist>>

EncipherBlock == CallBlock("EncipherBlock")
DecipherBlock == CallBlock("DecipherBlock")

\* for(int i = 0; i < n_blocks; i++): the test holds, the round engine is
\* invoked on data + BLOCK_SIZE * i (lines 102-103, 117-118)
LoopCall ==
    /\ pc = "loop"
    /\ i < n_blocks
    /\ \E w \in OffsetOf(i) :
          /\ base' = w
          /\ starts' = Append(starts, w)
    /\ sum' = SumInit(op)
    /\ rnd' = 0
    /\ wlog' = <<>>
    /\ pc' = "block"
    /\ UNCHANGED <<Inputs, data, data2, op, n_blocks, i, hist, rd, wr, kidx>>

\* the loop test fails: Encrypt / Decrypt returns (lines 105, 120)
LoopExit ==
    /\ pc = "loop"
    /\ i >= n_blocks
    /\ pc' = "idle"
    /\ hist' = Append(hist, op)
    /\ UNCHANGED <<Inputs, data, data2, op, n_blocks, i, base, sum, rnd,
                   starts, wlog, rd, wr, kidx>>

\* the body the build compiles (#ifdef USE_TEA_INSTEAD_OF_XTEA, line 28)
EncipherBody(m, b, e, k, s) ==
    IF variant = "TEA" THEN TeaEncipherBody(m, b, e, k, s)
                       ELSE XteaEncipherBody(m, b, e, k, s)

DecipherBody(m, b, e, k, s) ==
    IF variant = "TEA" THEN TeaDecipherBody(m, b, e, k, s)
                       ELSE XteaDecipherBody(m, b, e, k, s)

WordBytes(b, j) == {b + 4 * j + x : x \in 0..3}

\* one iteration of the round engine's for loop, on both runs
Round(r, r2) ==
    LET b == ToInt(base)
    IN  /\ data' = r.m
        /\ data2' = r2.m
        /\ sum' = r.sum
        /\ rnd' = rnd + 1
        /\ wlog' = wlog \o <<r.ws[1].idx, r.ws[2].idx>>
        /\ wr' = wr \cup WordBytes(b, r.ws[1].idx) \cup WordBytes(b, r.ws[2].idx)
        /\ rd' = rd \cup UNION {WordBytes(b, j) : j \in r.ws[1].rds \cup r.ws[2].rds}
        /\ kidx' = kidx \cup r.ws[1].kr \cup r.ws[2].kr
        /\ UNCHANGED <<Inputs, pc, op, n_blocks, i, base, hist, starts>>

EncipherRound ==
    /\ pc = "block"
    /\ op \in {"Encrypt", "EncipherBlock"}
    /\ rnd < n_rounds
    /\ Round(EncipherBody(data, ToInt(base), endian, KeyWords, sum),
             EncipherBody(data2, ToInt(base), endian, KeyWords, sum))

DecipherRound ==
    /\ pc = "block"
    /\ op \in {"Decrypt", "DecipherBlock"}
    /\ rnd < n_rounds
    /\ Round(DecipherBody(data, ToInt(base), endian, KeyWords, sum),
             DecipherBody(data2, ToInt(base), endian, KeyWords, sum))

\* the round engine returns: to its caller, or to the loop's i++
BlockReturn ==
    /\ pc = "block"
    /\ rnd >= n_rounds
    /\ IF op \in {"EncipherBlock", "DecipherBlock"}
       THEN /\ pc' = "idle"
            /\ hist' = Append(hist, op)
            /\ i' = i
       ELSE /\ pc' = "loop"
            /\ i' = i + 1
            /\ hist' = hist
    /\ UNCHANGED <<Inputs, data, data2, op, n_blocks, base, sum, rnd, starts,
                   wlog, rd, wr, kidx>>

\* v reaches past the storage the caller owns: the access is undefined, and
\* instead of touching the neighbouring bytes the call may trap
Fault ==
    /\ pc = "block"
    /\ rnd = 0
    /\ rnd < n_rounds
    /\ ToInt(base) + BLOCK_SIZE > cap
    /\ pc' = "fault"
    /\ UNCHANGED <<Inputs, data, data2, op, n_blocks, i, base, sum, rnd, hist,
                   starts, wlog, rd, wr, kidx>>

Next ==
    \/ Encrypt
    \/ Decrypt
    \/ EncipherBlock
    \/ DecipherBlock
    \/ LoopCall
    \/ LoopExit
    \/ EncipherRound
    \/ DecipherRound
    \/ BlockReturn
    \/ Fault

Spec == Init /\ [][Next]_vars

\* ------------------------------------------ the index arithmetic at full width
\* The loop of Encrypt / Decrypt for sizes up to 2^32 - 1.  Only size,
\* n_blocks, i and the offset are followed: the gigabytes behind data are not
\* part of the state, and LoopSkip stands for the iterations between two of
\* the indices looked at.
SizeHalves == {0, Half \div 2 - 1, Half \div 2, Half - 1}
SizeLows   == {0, BLOCK_SIZE, BLOCK_SIZE + 1, Half - 1}
WideSizes  == {<<h, l>> : h \in SizeHalves, l \in SizeLows}

\* the largest index whose offset fits an int, and the indices around it
IndexEdge    == INT_MAX \div BLOCK_SIZE
IndexSamples == {0, 1, IndexEdge - 1, IndexEdge, IndexEdge + 1,
                 2 * IndexEdge, 2 * IndexEdge + 1}

InitOff ==
    /\ variant \in {"XTEA", "TEA"}
    /\ endian = "little"
    /\ key = KeyZero
    /\ key0 = key
    /\ n_rounds \in 0 .. MaxRounds
    /\ size \in WideSizes
    /\ cap = 0
    /\ data = PatA
    /\ dblk = 0
    /\ data2 = data
    /\ orig = data
    /\ pc = "idle"
    /\ op = "none"
    /\ n_blocks = 0
    /\ i = 0
    /\ base = Zero
    /\ sum = Zero
    /\ rnd = 0
    /\ hist = <<>>
    /\ starts = <<>>
    /\ wlog = <<>>
    /\ rd = {}
    /\ wr = {}
    /\ kidx = {}

\* iterations i .. j-1 of the loop have run (line 102, i++)
LoopSkip ==
    /\ pc = "loop"
    /\ \E j \in IndexSamples :
          /\ i < j
          /\ j < n_blocks
          /\ i' = j
    /\ UNCHANGED <<Inputs, data, data2, pc, op, n_blocks, base, sum, rnd, hist,
                   starts, wlog, rd, wr, kidx>>

NextOff ==
    \/ Encrypt
    \/ Decrypt
    \/ LoopSkip
    \/ LoopCall

SpecOff == InitOff /\ [][NextOff]_vars

\* ----------------------------------------------------------------- claims
EncOps    == {"Encrypt", "EncipherBlock"}
DecOps    == {"Decrypt", "DecipherBlock"}
BufferOps == {"Encrypt", "Decrypt"}

Returned  == pc = "idle" /\ hist # <<>>
SizeBytes == ToInt(size)
Aligned   == SizeBytes % BLOCK_SIZE = 0
CeilBlocks == (SizeBytes + BLOCK_SIZE - 1) \div BLOCK_SIZE
Window(b) == b .. b + BLOCK_SIZE - 1
BlockOf(m, j) == [x \in 0 .. BLOCK_SIZE - 1 |-> m[BLOCK_SIZE * j + x]]
StartOffs == [j \in 1 .. Len(starts) |-> ToInt(starts[j])]

\* C1: in the XTEA build, EncipherBlock followed by DecipherBlock with the
\* same key and round count r >= 1 leaves both words of the block as they
\* were before the two calls.
C1_XteaBlockRoundTrip ==
    (/\ variant = "XTEA"
     /\ pc = "idle"
     /\ hist = <<"EncipherBlock", "DecipherBlock">>
     /\ n_rounds >= 1)
    => V(data, 0, endian) = V(orig, 0, endian)

\* C2: for a buffer whose size is a multiple of 8, Encrypt followed by
\* Decrypt with the same key and round count r >= 1 restores every byte.
C2_BufferRoundTrip ==
    (/\ pc = "idle"
     /\ hist = <<"Encrypt", "Decrypt">>
     /\ Aligned
     /\ n_rounds >= 1)
    => \A o \in 0 .. SizeBytes - 1 : data[o] = orig[o]

\* C3: in the TEA build, DecipherBlock starts its sum at r * DELTA mod 2^32
\* and has decremented it by DELTA after each round, and EncipherBlock
\* followed by DecipherBlock with the same key and r >= 1 restores the block.
C3_TeaBlockRoundTrip ==
    variant = "TEA" =>
        /\ (pc = "block" /\ op \in DecOps) => sum = MulW(n_rounds - rnd, DELTA)
        /\ (/\ pc = "idle"
            /\ hist = <<"EncipherBlock", "DecipherBlock">>
            /\ n_rounds >= 1)
           => V(data, 0, endian) = V(orig, 0, endian)

\* C3 witness: a TEA round trip has completed with a round count whose
\* product with DELTA wraps modulo 2^32.
C3_Witness ==
    /\ variant = "TEA"
    /\ pc = "idle"
    /\ hist = <<"EncipherBlock", "DecipherBlock">>
    /\ n_rounds = 2
    /\ key = KeyPat
    /\ data = orig

\* C4: two runs on buffers that differ only in block dblk agree in every
\* other block at every moment, and after Encrypt / Decrypt calls two blocks
\* of one buffer that held the same 8 bytes hold the same 8 bytes again: the
\* result depends on the block's content, not on its index.
C4_BlockIndependence ==
    /\ \A j \in 0 .. MaxBlocks - 1 :
          j # dblk => BlockOf(data, j) = BlockOf(data2, j)
    /\ (/\ Returned
        /\ \A h \in 1 .. Len(hist) : hist[h] \in BufferOps)
       => \A j, k \in 0 .. n_blocks - 1 :
             BlockOf(orig, j) = BlockOf(orig, k)
                => BlockOf(data, j) = BlockOf(data, k)

\* C4 witness: Encrypt has transformed a two-block buffer of two identical
\* blocks while the paired run held another block 0.
C4_Witness ==
    /\ Returned
    /\ hist = <<"Encrypt">>
    /\ n_blocks = 2
    /\ n_rounds >= 1
    /\ dblk = 0
    /\ BlockOf(orig, 0) = BlockOf(orig, 1)
    /\ BlockOf(data, 0) # BlockOf(orig, 0)
    /\ BlockOf(data, 0) # BlockOf(data2, 0)

\* C5: Encrypt and Decrypt invoke the round engine once per block index
\* 0 .. ceil(size/8)-1, in increasing order, at byte offset 8*i; for size 0
\* no block is processed and the buffer is unchanged, for size 8 exactly the
\* block at offset 0 is processed.
C5_BlockCount ==
    /\ (op \in BufferOps /\ pc \in {"loop", "block", "fault"})
       => /\ \A j \in 1 .. Len(starts) : StartOffs[j] = BLOCK_SIZE * (j - 1)
          /\ Len(starts) = IF pc = "loop" THEN i ELSE i + 1
    /\ (Returned /\ op \in BufferOps)
       => /\ StartOffs = [j \in 1 .. CeilBlocks |-> BLOCK_SIZE * (j - 1)]
          /\ SizeBytes = 0 => (starts = <<>> /\ wr = {} /\ rd = {})
          /\ (SizeBytes = 0 /\ Len(hist) = 1) => data = orig
          /\ SizeBytes = BLOCK_SIZE => StartOffs = <<0>>

\* C5 witness: Encrypt has returned from a buffer with a partial last block
\* after invoking the round engine at offsets 0 and 8.
C5_Witness ==
    /\ Returned
    /\ op = "Encrypt"
    /\ ~Aligned
    /\ n_rounds >= 1
    /\ StartOffs = <<0, 8>>
    /\ data # orig

\* C6: when size is not a multiple of 8 a call that returns has read and
\* written every byte offset from size up to 8*ceil(size/8), and has also
\* written the bytes of the last window that lie before size.
C6_PartialBlockOverrun ==
    (/\ Returned
     /\ op \in BufferOps
     /\ ~Aligned
     /\ n_rounds >= 1)
    => /\ n_blocks = CeilBlocks
       /\ \A o \in SizeBytes .. BLOCK_SIZE * CeilBlocks - 1 : o \in rd /\ o \in wr
       /\ \A o \in Window(BLOCK_SIZE * (CeilBlocks - 1)) : o \in wr

\* C7: no call changes the key, every key read uses an index in 0..3, and
\* the only bytes written lie in the 8-byte windows the round engine was
\* invoked on.
C7_KeyUntouched ==
    /\ key = key0
    /\ kidx \subseteq 0 .. 3
    /\ wr \subseteq UNION {Window(StartOffs[j]) : j \in 1 .. Len(starts)}

\* C7 witness: an XTEA call has returned after reading several key words and
\* writing the block.
C7_Witness ==
    /\ Returned
    /\ variant = "XTEA"
    /\ op = "Decrypt"
    /\ Cardinality(kidx) >= 2
    /\ wr # {}
    /\ data # orig

\* C8: in the XTEA build every round of EncipherBlock assigns block[0] and
\* then block[1], each once.
C8_XteaRoundWritesBothWords ==
    (variant = "XTEA" /\ op \in EncOps /\ pc = "block")
    => /\ Len(wlog) = 2 * rnd
       /\ \A j \in 1 .. Len(wlog) : wlog[j] = (j - 1) % 2

\* a TEA EncipherBlock round is being taken
TeaEncStep ==
    /\ variant = "TEA"
    /\ pc = "block"
    /\ op \in EncOps
    /\ rnd' = rnd + 1

\* C9 as stated: a TEA encipher round adds DELTA to sum once, updates
\* block[0] from block[1], key[0], key[1] and the new sum, and updates
\* block[1] from the pre-round value of block[0], key[2], key[3] and the sum.
C9_TeaStaleBlock0 ==
    [][TeaEncStep =>
        LET v  == V(data, ToInt(base), endian)
            vn == V(data', ToInt(base), endian)
        IN  /\ sum' = AddW(sum, DELTA)
            /\ vn[0] = AddW(v[0], TeaMix(v[1], KeyWords[0], KeyWords[1], sum'))
            /\ vn[1] = AddW(v[1], TeaMix(v[0], KeyWords[2], KeyWords[3], sum'))
      ]_vars

\* C9 amended: a TEA encipher round adds DELTA to sum once, updates block[0]
\* from block[1], key[0], key[1] and the new sum, and updates block[1] from
\* the value of block[0] just written in this round, key[2], key[3] and the
\* sum.
C9_TeaUpdatedBlock0 ==
    [][TeaEncStep =>
        LET v  == V(data, ToInt(base), endian)
            vn == V(data', ToInt(base), endian)
        IN  /\ sum' = AddW(sum, DELTA)
            /\ vn[0] = AddW(v[0], TeaMix(v[1], KeyWords[0], KeyWords[1], sum'))
            /\ vn[1] = AddW(v[1], TeaMix(vn[0], KeyWords[2], KeyWords[3], sum'))
      ]_vars

\* C9 witness: a TEA encipher round has run and changed block[0], so the
\* pre-round and the updated block[0] differ.
C9_Witness ==
    /\ variant = "TEA"
    /\ op \in EncOps
    /\ pc = "block"
    /\ rnd >= 1
    /\ wlog = <<0, 1>>
    /\ V(data, ToInt(base), endian)[0] # V(orig, ToInt(base), endian)[0]

\* C10: for every size of the 32-bit unsigned parameter, the block count and
\* every offset BLOCK_SIZE * i the loop computes stay within the int range,
\* so the round engine is invoked at the mathematical offset 8 * i.
C10_OffsetInIntRange ==
    /\ n_blocks >= 0
    /\ n_blocks <= INT_MAX
    /\ (pc = "block" /\ op \in BufferOps)
       => /\ i <= INT_MAX \div BLOCK_SIZE
          /\ base = <<(BLOCK_SIZE * i) \div Half, (BLOCK_SIZE * i) % Half>>

====
